---- MODULE Spec2Model ----
(***************************************************************************)
(* Model of pickley's layered settings (settings.py) and of its version    *)
(* parsing, ordering and "latest" discovery (pypi.py).                      *)
(*                                                                         *)
(* A version text is a sequence of tokens: a digit, ".", "-", a qualifier  *)
(* word ("a", "b", "c", "rc", "dev", "post") or the junk token "x".  A run *)
(* of digit tokens is what the regular expression's \d+ matches.           *)
(***************************************************************************)
EXTENDS Integers, Sequences, FiniteSets, TLC

VARIABLES
    shapes,     \* pypi: what each text was written from (core, qualifiers, junk)
    texts,      \* pypi: the texts handed to PepVersion(), one or two of them
    versions,   \* pypi: the PepVersion objects built from texts (<<>> before)
    lt,         \* pypi: <<v1 < v2, v2 < v1, v1 == v2>> once compared (<<>> before)
    data,       \* pypi: what request_get(url) returned
    include_prereleases,    \* pypi: the argument of PypiInfo()
    latest,     \* pypi: PypiInfo.latest, <<>> for None
    problem,    \* pypi: PypiInfo.problem, "" for None
    pypi,       \* pypi: "idle", "new" (PypiInfo() not yet called), "done", "raised"
    files,      \* settings: the JSON object each settings file holds on disk
    paths,      \* settings: Settings.paths
    children,   \* settings: Settings.children, each with its path and _contents
    call,       \* settings: the last call made on the Settings object
    result      \* settings: what that call returned

vars == <<shapes, texts, versions, lt, data, include_prereleases, latest, problem, pypi,
          files, paths, children, call, result>>

vars_settings == <<files, paths, children, call, result>>

vars_pypi == <<data, include_prereleases, latest, problem, pypi>>

vars_version == <<shapes, texts, versions, lt>>

-----------------------------------------------------------------------------
(* Bounds *)

\* longest release core, in dot-separated segments, of a generated text
MaxSegs == 4
\* largest number following a qualifier (a, b, c, rc, dev, post)
MaxNum == 2
\* most lines of an index listing
MaxLines == 3
\* most paths in the list given to one Settings.add call
MaxPaths == 2
\* most names in the list given to Settings.resolved_packages
MaxNames == 2

-----------------------------------------------------------------------------
(* Texts *)

Digits == {"0", "1", "2", "3", "4", "5", "6", "7", "8", "9"}

\* int() of one digit character
DigitVal(d) ==
    CASE d = "0" -> 0 [] d = "1" -> 1 [] d = "2" -> 2 [] d = "3" -> 3
      [] d = "4" -> 4 [] d = "5" -> 5 [] d = "6" -> 6 [] d = "7" -> 7
      [] d = "8" -> 8 [] d = "9" -> 9

\* int() of a string of digits
RECURSIVE ToInt(_)
ToInt(ds) ==
    IF ds = <<>> THEN 0
    ELSE 10 * ToInt(SubSeq(ds, 1, Len(ds) - 1)) + DigitVal(ds[Len(ds)])

\* \d+ at position i of s: the index of the last digit of the longest run of
\* digits starting at i, and i - 1 when s has no digit at i
RECURSIVE DigitsEnd(_, _)
DigitsEnd(s, i) ==
    IF i <= Len(s) /\ s[i] \in Digits THEN DigitsEnd(s, i + 1) ELSE i - 1

\* ((\.(\d+))+) at position i of s: the index where the longest repetition of
\* "." digits ends, and i - 1 when there is not even one
RECURSIVE MainPartEnd(_, _)
MainPartEnd(s, i) ==
    IF i <= Len(s) /\ s[i] = "." /\ DigitsEnd(s, i + 1) >= i + 1
    THEN MainPartEnd(s, DigitsEnd(s, i + 1) + 1)
    ELSE i - 1

\* str.split("."): the pieces of s between its "." tokens
RECURSIVE Split(_)
Split(s) ==
    IF \A i \in 1..Len(s) : s[i] # "."
    THEN <<s>>
    ELSE LET i == CHOOSE j \in 1..Len(s) : s[j] = "." /\ \A k \in 1..(j - 1) : s[k] # "."
         IN  <<SubSeq(s, 1, i - 1)>> \o Split(SubSeq(s, i + 1, Len(s)))

\* ((a|b|c|rc)(\d+))? at position i of s: the index where it ends, and i - 1
\* when it matches nothing
PreEnd(s, i) ==
    IF i <= Len(s) /\ s[i] \in {"a", "b", "c", "rc"} /\ DigitsEnd(s, i + 1) >= i + 1
    THEN DigitsEnd(s, i + 1)
    ELSE i - 1

\* (\.(dev|post)(\d+))? at position i of s: the index where it ends, and
\* i - 1 when it matches nothing
RelEnd(s, i) ==
    IF /\ i + 1 <= Len(s)
       /\ s[i] = "."
       /\ s[i + 1] \in {"dev", "post"}
       /\ DigitsEnd(s, i + 2) >= i + 2
    THEN DigitsEnd(s, i + 2)
    ELSE i - 1

\* the groups of a match whose parts end at the given indexes
Groups(text, majorEnd, mainEnd, preEnd, relEnd) ==
    IF majorEnd < 1 \/ mainEnd < majorEnd + 1
    THEN [matched |-> FALSE]
    ELSE [matched   |-> TRUE,
          group1    |-> SubSeq(text, 1, relEnd),
          major     |-> SubSeq(text, 1, majorEnd),
          main_part |-> SubSeq(text, majorEnd + 1, mainEnd),
          pre       |-> IF preEnd > mainEnd THEN text[mainEnd + 1] ELSE "",
          pre_num   |-> SubSeq(text, mainEnd + 2, preEnd),
          rel       |-> IF relEnd > preEnd THEN text[preEnd + 2] ELSE "",
          rel_num   |-> SubSeq(text, preEnd + 3, relEnd)]

MatchedToPre(text, majorEnd, mainEnd, preEnd) ==
    Groups(text, majorEnd, mainEnd, preEnd, RelEnd(text, preEnd + 1))

MatchedToMain(text, majorEnd, mainEnd) ==
    MatchedToPre(text, majorEnd, mainEnd, PreEnd(text, mainEnd + 1))

MatchedToMajor(text, majorEnd) ==
    MatchedToMain(text, majorEnd, MainPartEnd(text, majorEnd + 1))

\* The groups of RE_VERSION.match(text), matched from left to right; matched
\* is FALSE when there is no match.  The pattern ends in .*$ so the greedy
\* choice of each part never has to be taken back.
RE_VERSION(text) == MatchedToMajor(text, DigitsEnd(text, 1))

-----------------------------------------------------------------------------
(* The texts the model hands to the parser *)

\* the digits a generated release segment is written with
SegDigits == {"0", "1"}

\* str(n) for a number of one digit
DigitOf(n) == <<"0", "1", "2", "3", "4", "5", "6", "7", "8", "9">>[n + 1]

\* segments joined by "."
RECURSIVE Joined(_)
Joined(segs) ==
    IF Len(segs) = 1 THEN <<segs[1]>>
    ELSE Joined(SubSeq(segs, 1, Len(segs) - 1)) \o <<".", segs[Len(segs)]>>

\* a shape is a release core, an optional pre-release qualifier, an optional
\* .dev/.post suffix and optional trailing junk; Render writes its text
Render(sh) ==
    Joined(sh.segs)
    \o (IF sh.pre = "" THEN <<>> ELSE <<sh.pre, DigitOf(sh.pre_num)>>)
    \o (IF sh.rel = "" THEN <<>> ELSE <<".", sh.rel, DigitOf(sh.rel_num)>>)
    \o (IF sh.junk = "" THEN <<>> ELSE <<sh.junk>>)

Cores(lo, hi) == UNION {[1..n -> SegDigits] : n \in lo..hi}

Shapes(cores, pres, rels, junks) ==
    {sh \in [segs : cores, pre : pres, pre_num : 1..MaxNum,
             rel : rels, rel_num : 1..MaxNum, junk : junks] :
        /\ sh.pre = "" => sh.pre_num = 1
        /\ sh.rel = "" => sh.rel_num = 1}

\* every shape: cores of 1..MaxSegs segments, any qualifiers, junk or not
ParseShapes ==
    Shapes(Cores(1, MaxSegs), {"", "a", "b", "c", "rc"}, {"", "dev", "post"}, {"", "x"})

\* the shapes that are compared: cores the parser accepts and at most one
\* qualifier
OrderShapes ==
    {sh \in Shapes(Cores(2, 3), {"", "a", "b", "c", "rc"}, {"", "dev", "post"}, {""}) :
        sh.pre = "" \/ sh.rel = ""}

-----------------------------------------------------------------------------
(* PepVersion *)

\* the class attribute prerelease = None
NoPrerelease == [kind |-> "", num |-> 0]

\* the class attribute components = None, written as the empty tuple: a set
\* components tuple always has four entries
NoComponents == <<>>

\* while len(components) < 3: components.append(0)
RECURSIVE Padded(_)
Padded(components) ==
    IF Len(components) < 3 THEN Padded(Append(components, 0)) ELSE components

\* PepVersion.__init__ from "if len(components) > 3" on: parts is the split
\* (major + main_part)
Components(m, parts) ==
    IF Len(parts) > 3
    THEN [text |-> m.group1, components |-> NoComponents, prerelease |-> NoPrerelease]
    ELSE [text |-> m.group1,
          components |->
              Append(Padded([i \in 1..Len(parts) |-> ToInt(parts[i])]),
                     IF m.rel = "post" THEN ToInt(m.rel_num) ELSE 0),
          prerelease |->
              IF m.rel = "dev"
              THEN [kind |-> "dev", num |-> ToInt(m.rel_num)]
              ELSE IF m.pre # ""
              THEN [kind |-> IF m.pre = "rc" THEN "c" ELSE m.pre,
                    num  |-> ToInt(m.pre_num)]
              ELSE NoPrerelease]

\* PepVersion.__init__ from "if not m" on
Matched(text, m) ==
    IF ~m.matched
    THEN [text |-> text, components |-> NoComponents, prerelease |-> NoPrerelease]
    ELSE Components(m, Split(m.major \o m.main_part))

\* PepVersion.__init__
PepVersion(text) == Matched(text, RE_VERSION(text))

\* ord() of the first character of a pre-release kind; the kinds "a", "b",
\* "c" and "dev" differ in their first character, which decides str < str
FirstChar(kind) ==
    CASE kind = "a" -> 97 [] kind = "b" -> 98 [] kind = "c" -> 99 [] kind = "dev" -> 100

\* tuple < tuple for two (kind, number) pairs
PrereleaseLess(p, q) ==
    \/ FirstChar(p.kind) < FirstChar(q.kind)
    \/ p.kind = q.kind /\ p.num < q.num

\* tuple < tuple for two tuples of integers
RECURSIVE TupleLess(_, _)
TupleLess(s, t) ==
    IF s = <<>> THEN t # <<>>
    ELSE IF t = <<>> THEN FALSE
    ELSE IF Head(s) # Head(t) THEN Head(s) < Head(t)
    ELSE TupleLess(Tail(s), Tail(t))

\* PepVersion.__lt__, as the truth value of what it returns
PepVersion_lt(self, other) ==
    IF self.components = other.components
    THEN IF self.prerelease # NoPrerelease
         THEN other.prerelease # NoPrerelease
              /\ PrereleaseLess(self.prerelease, other.prerelease)
         ELSE other.prerelease # NoPrerelease
    ELSE TupleLess(self.components, other.components)

\* PepVersion.__eq__
PepVersion_eq(self, other) ==
    self.components = other.components /\ self.prerelease = other.prerelease

-----------------------------------------------------------------------------
(* PypiInfo *)

\* the package looked up: the three spellings of its name
pspec == [original |-> "My.Pkg", dashed |-> "my-pkg", wheelified |-> "My_Pkg"]

\* str.lower() on the names that occur
Lower(name) ==
    CASE name = "My.Pkg" -> "my.pkg"
      [] name = "My_Pkg" -> "my_pkg"
      [] name = "MY-PKG" -> "my-pkg"
      [] OTHER -> name

\* the version of a JSON answer and the text of a file that is no version
JsonVersion == <<"1", ".", "0">>

\* A line of a legacy listing: href says whether RE_BASENAME finds an anchor
\* in it, and the anchor's file is <name>-<rest>.tar.gz
Line(href, name, rest) == [href |-> href, name |-> name, rest |-> rest]

Plain(segs) ==
    [segs |-> segs, pre |-> "", pre_num |-> 1, rel |-> "", rel_num |-> 1, junk |-> ""]

ListingLines ==
    {Line(TRUE, "my-pkg", Render(sh)) :
        sh \in {Plain(<<"1">>), Plain(<<"1", "0">>), Plain(<<"1", "0", "0">>),
                Plain(<<"1", "1">>), Plain(<<"1", "0", "0", "0">>),
                [Plain(<<"1", "0">>) EXCEPT !.pre = "rc"],
                [Plain(<<"1", "1">>) EXCEPT !.pre = "rc"],
                [Plain(<<"1", "1">>) EXCEPT !.rel = "dev"],
                [Plain(<<"1", "1">>) EXCEPT !.junk = "-"]}}
    \cup {Line(TRUE, "My_Pkg", <<"1", ".", "0", ".", "0">>),
          Line(TRUE, "my-pkg", <<"x", "1">>),
          Line(TRUE, "other", <<"1", ".", "1">>),
          Line(FALSE, "", <<>>)}

\* what request_get can return: None (an IOError), a JSON document, the text
\* "does not exist" of a 404, or a legacy listing (blank when it has no line)
JsonKinds == {"version", "no_info", "no_version", "info_not_object", "invalid"}

Answer(kind, json, lines) == [kind |-> kind, json |-> json, lines |-> lines]

Answers ==
    {Answer("none", "", {}), Answer("notfound", "", {})}
    \cup {Answer("json", j, {}) : j \in JsonKinds}
    \cup {Answer("html", "", ls) : ls \in {l \in SUBSET ListingLines : Cardinality(l) <= MaxLines}}

\* PypiInfo._version_part: the file name lowered, then stripped of the first
\* spelling it starts with; <<>> for None
PypiInfo__version_part(line) ==
    LET filename == Lower(line.name)
    IN  IF filename = Lower(pspec.wheelified) THEN line.rest
        ELSE IF filename = pspec.dashed THEN line.rest
        ELSE IF filename = Lower(pspec.original) THEN line.rest
        ELSE <<>>

\* PypiInfo.version_part; <<>> for None
PypiInfo_version_part(line) ==
    LET vp == PypiInfo__version_part(line)
    IN  IF vp # <<>> /\ vp[1] \in Digits THEN vp ELSE <<>>

\* list.insert of x into the sorted list s, after the elements not above it
RECURSIVE Inserted(_, _)
Inserted(s, x) ==
    IF s # <<>> /\ PepVersion_lt(x, s[Len(s)])
    THEN Append(Inserted(SubSeq(s, 1, Len(s) - 1), x), s[Len(s)])
    ELSE Append(s, x)

\* sorted(): a stable sort that asks only __lt__
RECURSIVE Sorted(_)
Sorted(s) ==
    IF s = <<>> THEN <<>>
    ELSE Inserted(Sorted(SubSeq(s, 1, Len(s) - 1)), s[Len(s)])

\* the orders in which a set can be iterated (the versions hash by their text)
Iterations(set) ==
    {s \in [1..Cardinality(set) -> set] : \A i, j \in DOMAIN s : i # j => s[i] # s[j]}

\* the loop over the lines: the versions of the anchors that have components
Candidates(lines) ==
    {v \in {PepVersion(PypiInfo_version_part(l)) : l \in {x \in lines : x.href}} :
        v.components # NoComponents}

\* a slip: the pre-releases are always added
Releases_always_united(candidates, prereleasesToo) == candidates

\* releases, after "if include_prereleases or not releases"
Releases(candidates, prereleasesToo) ==
    IF prereleasesToo \/ \A v \in candidates : v.prerelease # NoPrerelease
    THEN candidates
    ELSE {v \in candidates : v.prerelease = NoPrerelease}

PypiInit ==
    /\ data \in Answers
    /\ include_prereleases \in BOOLEAN
    /\ latest = <<>>
    /\ problem = ""
    /\ pypi = "new"

Finish(l, p) ==
    /\ latest' = l
    /\ problem' = p
    /\ pypi' = "done"

\* PypiInfo.__init__ from "if releases" on
Selected(releases) ==
    IF releases # {}
    THEN \E order \in Iterations(releases) : Finish(Sorted(order)[Len(order)].text, "")
    ELSE Finish(<<>>, "no versions published")

\* PypiInfo.__init__
PypiInfo ==
    /\ pypi = "new"
    /\ CASE data.kind = "none" ->
              Finish(<<>>, "no data, check your connection")
         [] data.kind = "json" ->
              IF data.json \in {"invalid", "info_not_object"}
              THEN Finish(<<>>, "invalid json received")
              ELSE Finish(IF data.json = "version" THEN JsonVersion ELSE <<>>, "")
         [] data.kind = "notfound" \/ (data.kind = "html" /\ data.lines = {}) ->
              Finish(<<>>, "does not exist")
         [] OTHER ->
              IF \E l \in data.lines : l.href /\ PypiInfo_version_part(l) = <<>>
              THEN \* PepVersion(None): RE_VERSION.match(None) raises TypeError
                   pypi' = "raised" /\ UNCHANGED <<latest, problem>>
              ELSE Selected(Releases(Candidates(data.lines), include_prereleases))
    /\ UNCHANGED <<data, include_prereleases>>

-----------------------------------------------------------------------------
(* JSON values and Python objects *)

\* A JSON value carries its type in t.  A string is the sequence of its
\* space-separated words and a word the sequence of its pieces, so that
\* "bundle:x" is the word <<"bundle:", "x">>; a list holds strings; a dict is a
\* function from keys to values.  Null is None.
Null == [t |-> "null", v |-> <<>>]
Str(words) == [t |-> "str", v |-> words]
List(strings) == [t |-> "list", v |-> strings]
Dict(f) == [t |-> "dict", v |-> f]

\* the string of one word of one piece
S(piece) == Str(<<<<piece>>>>)

\* bool(value)
Truthy(value) == IF value.t = "dict" THEN DOMAIN value.v # {} ELSE Len(value.v) > 0

\* dict.get(key)
Get(d, key) == IF key \in DOMAIN d.v THEN d.v[key] ELSE Null

\* None, a Definition, a bare value (no Definition around it) and a raised
\* exception, as one shape of record
None == [kind |-> "None", value |-> Null, source |-> "", channel |-> Null]
Definition(value, source) ==
    [kind |-> "Definition", value |-> value, source |-> source, channel |-> Null]
Bare(value) == [kind |-> "value", value |-> value, source |-> "", channel |-> Null]
Raised(exception) == [kind |-> "raised", value |-> Null, source |-> exception, channel |-> Null]

-----------------------------------------------------------------------------
(* pickley.flattened and pickley.resolved_path *)

\* flattened(value, separator) of one string: its words when a separator is
\* given, the string itself when not, nothing when it is empty
FlattenedString(string, separated) ==
    IF string = <<>> THEN <<>>
    ELSE IF separated THEN [i \in 1..Len(string) |-> <<string[i]>>]
    ELSE <<string>>

RECURSIVE FlattenedStrings(_, _)
FlattenedStrings(strings, separated) ==
    IF strings = <<>> THEN <<>>
    ELSE FlattenedString(Head(strings), separated)
         \o FlattenedStrings(Tail(strings), separated)

\* flattened(value, separator): the leaves of value, in order, as a list
Flattened(value, separated) ==
    IF value.t = "str" THEN FlattenedString(value.v, separated)
    ELSE IF value.t = "list" THEN FlattenedStrings(value.v, separated)
    ELSE <<>>

\* resolved_path(path, base): the canonical path of a file
ResolvedPath(path) == IF path = "./f1" THEN "f1" ELSE path

-----------------------------------------------------------------------------
(* SettingsFile *)

RECURSIVE SettingsFile__get_raw_value(_, _)

\* _get_raw_value after the prefix is looked up
Leaf(value, leaf) == IF value.t = "dict" THEN Get(value, leaf) ELSE Null

\* SettingsFile._get_raw_value
SettingsFile__get_raw_value(contents, key) ==
    IF key = <<>> THEN Null
    ELSE IF Len(key) > 1
    THEN Leaf(SettingsFile__get_raw_value(contents, SubSeq(key, 1, Len(key) - 1)),
              key[Len(key)])
    ELSE Get(contents, key[1])

\* "if value: return value", else the raw value of the key
SelectedOr(value, contents, key) ==
    IF Truthy(value) THEN value ELSE SettingsFile__get_raw_value(contents, key)

\* SettingsFile.get_value; package_name is "" for None
SettingsFile_get_value(contents, key, package_name) ==
    IF key = <<>> THEN Null
    ELSE IF package_name # ""
    THEN SelectedOr(SettingsFile__get_raw_value(contents, <<"select", package_name>> \o key),
                    contents, key)
    ELSE SettingsFile__get_raw_value(contents, key)

Defined(value, source) == IF value # Null THEN Definition(value, source) ELSE None

\* SettingsFile.get_definition
SettingsFile_get_definition(child, key, package_name) ==
    Defined(SettingsFile_get_value(child.contents, key, package_name), child.path)

\* name.startswith("bundle:"), for a name of one word
IsBundleName(name) == name # <<>> /\ name[1][1] = "bundle:"

\* "bundle.%s" % name[7:]
BundleKey(name) == <<"bundle">> \o Tail(name[1])

\* one turn of the loop of unbundled_names: what a name adds to result
UnbundledName(contents, name, bundle) ==
    IF IsBundleName(name) /\ Truthy(bundle) THEN Flattened(bundle, TRUE) ELSE <<name>>

RECURSIVE UnbundledNames(_, _)
UnbundledNames(contents, names) ==
    IF names = <<>> THEN <<>>
    ELSE UnbundledName(contents, Head(names),
                       IF IsBundleName(Head(names))
                       THEN SettingsFile_get_value(contents, BundleKey(Head(names)), "")
                       ELSE Null)
         \o UnbundledNames(contents, Tail(names))

\* SettingsFile.unbundled_names
SettingsFile_unbundled_names(contents, names) ==
    List(FlattenedStrings(UnbundledNames(contents, names), TRUE))

\* SettingsFile.flatten(key, separator=" "): every entry of the node flattened
FlattenEntries(contents, key, node) ==
    IF ~Truthy(contents) \/ ~Truthy(node) THEN contents
    ELSE Dict([contents.v EXCEPT
                 ![key] = Dict([name \in DOMAIN node.v |-> List(Flattened(node.v[name], TRUE))])])

\* SettingsFile.flatten(key, direct=True): the node itself flattened
FlattenDirect(contents, key, node) ==
    IF ~Truthy(contents) \/ ~Truthy(node) THEN contents
    ELSE Dict([contents.v EXCEPT ![key] = List(Flattened(node, FALSE))])

\* set_contents from "bundle = self._contents.get(...)" on: every bundle is
\* unbundled against the contents as they are before this step
Unbundled(contents, bundle) ==
    IF bundle.t # "dict" THEN contents
    ELSE Dict([contents.v EXCEPT
                 !["bundle"] =
                     Dict([name \in DOMAIN bundle.v |->
                             SettingsFile_unbundled_names(contents, bundle.v[name].v)])])

FlattenedInclude(contents) == FlattenDirect(contents, "include", Get(contents, "include"))

FlattenedBundle(contents) == FlattenEntries(contents, "bundle", Get(contents, "bundle"))

WithBundlesUnbundled(contents) == Unbundled(contents, Get(contents, "bundle"))

\* SettingsFile.set_contents
SettingsFile_set_contents(contents) ==
    WithBundlesUnbundled(FlattenedInclude(FlattenedBundle(contents)))

\* the channels of a dict that hold the package
ChannelsHolding(channels, package_name) ==
    {name \in DOMAIN channels.v :
        channels.v[name].t = "dict" /\ package_name \in DOMAIN channels.v[name].v}

\* the loop over channels.items(): the first channel, in the order of the
\* dict, that holds the package
FirstHolding(holding, source) ==
    IF holding = {} THEN None
    ELSE Definition(S(CHOOSE name \in holding : TRUE), source)

\* package_channel from "channels = self.contents.get(...)" on
ChannelByMembership(channels, package_name, source) ==
    IF channels.t = "dict"
    THEN FirstHolding(ChannelsHolding(channels, package_name), source)
    ELSE None

SelectedChannelOr(value, child, package_name) ==
    IF Truthy(value) THEN Bare(value)
    ELSE ChannelByMembership(Get(child.contents, "channels"), package_name, child.path)

\* SettingsFile.package_channel: select.<package>.channel is returned as it
\* is stored, with no Definition around it
SettingsFile_package_channel(child, package_name) ==
    SelectedChannelOr(
        SettingsFile__get_raw_value(child.contents, <<"select", package_name, "channel">>),
        child, package_name)

-----------------------------------------------------------------------------
(* Settings *)

\* Settings.defaults, as set up by Settings.__init__
defaults ==
    [path |-> "defaults",
     contents |->
        SettingsFile_set_contents(
            Dict("default" :> Dict("channel" :> S("latest")
                                   @@ "delivery" :> S("symlink")
                                   @@ "packager" :> S("virtualenv"))))]

\* SettingsFile(self, path) with its contents loaded, as add() leaves it
\* after reading settings_file.include
SettingsFile(disk, path) ==
    [path |-> path, contents |-> SettingsFile_set_contents(disk[path])]

\* SettingsFile.include, as the list it is; <<>> when it is None or empty
Include(child) == Get(child.contents, "include").v

RECURSIVE Settings_add(_, _, _)

\* the body of the loop of add for a path not yet in self.paths
Added(disk, st, settings_file) ==
    IF Include(settings_file) # <<>>
    THEN Settings_add(disk, st, Include(settings_file))
    ELSE st

\* the loop with self.paths.add(path) moved under "if settings_file.include":
\* a file that includes nothing is not remembered
AddedFrom_remembered_with_include(disk, st, path, rest) ==
    IF path \in st.paths
    THEN st
    ELSE Settings_add(disk,
                      Added(disk,
                            [paths |-> IF Include(SettingsFile(disk, path)) # <<>>
                                       THEN st.paths \cup {path}
                                       ELSE st.paths,
                             children |-> Append(st.children, SettingsFile(disk, path))],
                            SettingsFile(disk, path)),
                      rest)

\* the loop of add from the resolved path on; "return" leaves the whole list
AddedFrom(disk, st, path, rest) ==
    IF path \in st.paths
    THEN st
    ELSE Settings_add(disk,
                      Added(disk,
                            [paths |-> st.paths \cup {path},
                             children |-> Append(st.children, SettingsFile(disk, path))],
                            SettingsFile(disk, path)),
                      rest)

\* Settings.add: st holds self.paths and self.children
Settings_add(disk, st, list) ==
    IF list = <<>> THEN st
    ELSE AddedFrom(disk, st, ResolvedPath(list[1][1][1]), Tail(list))

OrElse(value, other) == IF value.kind # "None" THEN value ELSE other

\* the loop taken from the last child to the first: the last definition wins
RECURSIVE FirstDefinition_last_wins(_, _, _)
FirstDefinition_last_wins(docs, key, package_name) ==
    IF docs = <<>> THEN None
    ELSE OrElse(FirstDefinition_last_wins(Tail(docs), key, package_name),
                SettingsFile_get_definition(Head(docs), key, package_name))

\* the loop of _get_raw_definition over self.children
RECURSIVE FirstDefinition(_, _, _)
FirstDefinition(docs, key, package_name) ==
    IF docs = <<>> THEN None
    ELSE OrElse(SettingsFile_get_definition(Head(docs), key, package_name),
                FirstDefinition(Tail(docs), key, package_name))

\* the loop alone, with self.defaults never asked
Settings__get_raw_definition_children_only(docs, key, package_name) ==
    FirstDefinition(docs, key, package_name)

\* Settings._get_raw_definition
Settings__get_raw_definition(docs, key, package_name) ==
    OrElse(FirstDefinition(docs, key, package_name),
           SettingsFile_get_definition(defaults, key, package_name))

\* Settings.get_definition
Settings_get_definition(docs, key, package_name) ==
    OrElse(Settings__get_raw_definition(docs, key, package_name),
           Settings__get_raw_definition(docs, <<"default">> \o key, package_name))

ValueOr(definition, default) ==
    IF definition.kind # "None" THEN definition.value ELSE default

\* Settings.get_value
Settings_get_value(docs, key, package_name, default) ==
    ValueOr(Settings_get_definition(docs, key, package_name), default)

\* the loop taken from the last child to the first: the last answer wins
RECURSIVE FirstChannel_last_wins(_, _)
FirstChannel_last_wins(docs, package_name) ==
    IF docs = <<>> THEN None
    ELSE OrElse(FirstChannel_last_wins(Tail(docs), package_name),
                SettingsFile_package_channel(Head(docs), package_name))

\* the loop of Settings.package_channel over self.children
RECURSIVE FirstChannel(_, _)
FirstChannel(docs, package_name) ==
    IF docs = <<>> THEN None
    ELSE OrElse(SettingsFile_package_channel(Head(docs), package_name),
                FirstChannel(Tail(docs), package_name))

\* Settings.package_channel
Settings_package_channel(docs, package_name) ==
    OrElse(FirstChannel(docs, package_name),
           Settings_get_definition(docs, <<"default", "channel">>, ""))

\* "if not definition: definition = Definition(None)", then the channel is set
Tagged_with(definition, channel) ==
    [OrElse(definition, Definition(Null, "")) EXCEPT !.channel = channel.value]

\* Settings.version from "definition = ..." on: channel.value raises
\* AttributeError when channel is not a Definition
VersionIn(docs, package_name, channel) ==
    IF channel.kind # "Definition"
    THEN Raised("AttributeError")
    ELSE Tagged_with(
            Settings_get_definition(
                docs, <<"channels", channel.value.v[1][1], package_name>>, ""),
            channel)

\* Settings.version(package_name), without a channel
Settings_version(docs, package_name) ==
    VersionIn(docs, package_name, Settings_package_channel(docs, package_name))

\* the turn with the bundle looked up and never used: the name is kept
ResolvedName_kept(name, bundle) == <<name>>

\* one turn of the loop of resolved_packages: what a name adds to result
ResolvedName(name, bundle) ==
    IF IsBundleName(name) /\ Truthy(bundle) THEN bundle.v ELSE <<name>>

RECURSIVE ResolvedNames(_, _)
ResolvedNames(docs, names) ==
    IF names = <<>> THEN <<>>
    ELSE ResolvedName(Head(names),
                      IF IsBundleName(Head(names))
                      THEN Settings_get_value(docs, BundleKey(Head(names)), "", Null)
                      ELSE Null)
         \o ResolvedNames(docs, Tail(names))

\* Settings.resolved_packages
Settings_resolved_packages(docs, names) ==
    List(FlattenedStrings(ResolvedNames(docs, names), FALSE))

-----------------------------------------------------------------------------
(* The settings files on disk and the calls made on Settings *)

\* a name or a path as a string, and the name "bundle:<name>"
N(piece) == <<<<piece>>>>
B(name) == <<<<"bundle:", name>>>>

Packages == {"tox", "pex"}

\* what a settings file may hold besides its include list
EmptyBody == <<>>
BodyA ==
    "index" :> S("A")
    @@ "default" :> Dict("default" :> Dict("channel" :> S("nightly")))
    @@ "select" :> Dict("tox" :> Dict("channel" :> S("stable") @@ "delivery" :> S("wrap")))
    @@ "channels" :> Dict("stable" :> Dict("tox" :> S("1.0") @@ "pex" :> S("1.1")))
    @@ "bundle" :> Dict("x" :> Str(<<<<"p">>, <<"q">>>>))
BodyB ==
    "index" :> S("B")
    @@ "delivery" :> S("copy")
    @@ "default" :> Dict("channel" :> S("beta"))
    @@ "channels" :> Dict("beta" :> Dict("tox" :> S("2.0")))
    @@ "bundle" :> Dict("x" :> Str(<<>>) @@ "y" :> Str(<<<<"r">>>>))
BodyC ==
    "index" :> Null
    @@ "select" :> Dict("tox" :> Dict("channel" :> Str(<<>>))
                        @@ "pex" :> Dict("channel" :> S("beta")))
    @@ "channels" :> Dict("stable" :> Dict("pex" :> S("3.0")))
    @@ "bundle" :> Dict("x" :> List(<<N("q"), B("y")>>)
                        @@ "y" :> Str(<<<<"bundle:", "z">>>>)
                        @@ "z" :> S("p"))
BodyD ==
    "default" :> Dict("channel" :> S("stable") @@ "delivery" :> S("wrap"))
    @@ "channels" :> Dict("latest" :> Dict("pex" :> S("4.0")))
    @@ "bundle" :> Dict("y" :> Str(<<<<"bundle:", "x">>, <<"s">>>>)
                        @@ "x" :> Str(<<<<"p">>, <<"q">>>>))

\* what each file may hold
Bodies(path) ==
    IF path = "f1" THEN {BodyA, BodyB, BodyC}
    ELSE IF path = "f2" THEN {BodyB, BodyC, BodyD}
    ELSE {EmptyBody, BodyA, BodyD}

\* the paths of the settings files, and the spellings add() may be given
Paths == {"f1", "f2", "f3"}
RawPaths == Paths

\* a body with an include list; no "include" key when the list is empty
WithInclude(body, include) ==
    IF include = <<>> THEN Dict(body) ELSE Dict(body @@ "include" :> List(include))

\* the include lists a file may have
Includes(path) ==
    IF path = "f1" THEN {<<>>, <<N("f2")>>, <<N("f3"), N("f2")>>}
    ELSE IF path = "f2" THEN {<<>>, <<N("f3")>>, <<N("f1"), N("f3")>>}
    ELSE {<<>>, <<N("f3")>>, <<N("./f1"), N("f2")>>}

\* files that differ in what they hold and include nothing
PlainDisks ==
    {[path \in Paths |-> Dict(body[path])] :
     body \in {f \in [Paths -> UNION {Bodies(path) : path \in Paths}] :
                \A path \in Paths : f[path] \in Bodies(path)}}

\* files that hold the same throughout and differ in what they include
IncludingDisks ==
    {[path \in Paths |->
        WithInclude(IF path = "f1" THEN BodyA ELSE IF path = "f2" THEN BodyB ELSE BodyC,
                    include[path])] :
     include \in {f \in [Paths -> UNION {Includes(path) : path \in Paths}] :
                    \A path \in Paths : f[path] \in Includes(path)}}

\* the lists of 1..n elements of a set
Lists(set, n) == UNION {[1..k -> set] : k \in 1..n}

\* the keys get_value is called with
Keys == {<<"index">>, <<"channel">>, <<"delivery">>, <<"default", "channel">>,
         <<"bundle", "x">>, <<"bundle", "y">>}

\* the names resolved_packages is called with
Names == {N("p"), B("x")}

NoCall == [op |-> "", list |-> <<>>, key |-> <<>>, package_name |-> "", before |-> <<>>]

\* no Settings object
SettingsIdle ==
    /\ files = <<>>
    /\ paths = {}
    /\ children = <<>>
    /\ call = NoCall
    /\ result = None

\* Settings() over the files of a disk, before any call
SettingsInit ==
    /\ files \in PlainDisks \cup IncludingDisks
    /\ paths = {}
    /\ children = <<>>
    /\ call = NoCall
    /\ result = None

\* settings.add(paths)
Add ==
    \E list \in Lists({N(path) : path \in RawPaths}, MaxPaths) :
        LET st == Settings_add(files, [paths |-> paths, children |-> children], list)
        IN  /\ paths' = st.paths
            /\ children' = st.children
            /\ call' = [NoCall EXCEPT !.op = "add", !.list = list, !.before = children]
            /\ result' = None
            /\ UNCHANGED <<files, vars_version, vars_pypi>>

\* settings.get_value(key, package_name)
GetValue ==
    \E key \in Keys, package_name \in {"", "tox"} :
        /\ package_name = "" \/ key = <<"delivery">>
        /\ result' = Bare(Settings_get_value(children, key, package_name, Null))
        /\ call' = [NoCall EXCEPT !.op = "get_value", !.key = key,
                                  !.package_name = package_name]
        /\ UNCHANGED <<files, paths, children, vars_version, vars_pypi>>

\* settings.get_definition(key, package_name)
GetDefinition ==
    \E key \in Keys, package_name \in {"", "tox"} :
        /\ package_name = "" \/ key = <<"delivery">>
        /\ result' = Settings_get_definition(children, key, package_name)
        /\ call' = [NoCall EXCEPT !.op = "get_definition", !.key = key,
                                  !.package_name = package_name]
        /\ UNCHANGED <<files, paths, children, vars_version, vars_pypi>>

\* settings.package_channel(package_name)
PackageChannel ==
    \E package_name \in Packages :
        /\ result' = Settings_package_channel(children, package_name)
        /\ call' = [NoCall EXCEPT !.op = "package_channel", !.package_name = package_name]
        /\ UNCHANGED <<files, paths, children, vars_version, vars_pypi>>

\* settings.version(package_name)
Version ==
    \E package_name \in Packages :
        /\ result' = Settings_version(children, package_name)
        /\ call' = [NoCall EXCEPT !.op = "version", !.package_name = package_name]
        /\ UNCHANGED <<files, paths, children, vars_version, vars_pypi>>

\* settings.resolved_packages(names)
ResolvedPackages ==
    \E names \in Lists(Names, MaxNames) :
        /\ result' = Bare(Settings_resolved_packages(children, names))
        /\ call' = [NoCall EXCEPT !.op = "resolved_packages", !.list = names]
        /\ UNCHANGED <<files, paths, children, vars_version, vars_pypi>>

SettingsNext ==
    \/ Add
    \/ GetValue
    \/ GetDefinition
    \/ PackageChannel
    \/ Version
    \/ ResolvedPackages

-----------------------------------------------------------------------------
(* Parsing and comparing versions *)

VersionIdle == shapes = <<>> /\ texts = <<>> /\ versions = <<>> /\ lt = <<>>

VersionInit ==
    /\ shapes \in {<<sh>> : sh \in ParseShapes} \cup {<<a, b>> : a, b \in OrderShapes}
    /\ texts = [i \in DOMAIN shapes |-> Render(shapes[i])]
    /\ versions = <<>>
    /\ lt = <<>>
    /\ data = Answer("none", "", {})
    /\ include_prereleases = FALSE
    /\ latest = <<>>
    /\ problem = ""
    /\ pypi = "idle"
    /\ SettingsIdle

\* version = PepVersion(text), for each text
Parse ==
    /\ texts # <<>>
    /\ versions = <<>>
    /\ versions' = [i \in DOMAIN texts |-> PepVersion(texts[i])]
    /\ UNCHANGED <<shapes, texts, lt>>
    /\ UNCHANGED <<vars_pypi, vars_settings>>

\* sorted() compares the versions that have components
Compare ==
    /\ Len(versions) = 2
    /\ lt = <<>>
    /\ \A i \in 1..2 : versions[i].components # NoComponents
    /\ lt' = <<PepVersion_lt(versions[1], versions[2]),
               PepVersion_lt(versions[2], versions[1]),
               PepVersion_eq(versions[1], versions[2])>>
    /\ UNCHANGED <<shapes, texts, versions>>
    /\ UNCHANGED <<vars_pypi, vars_settings>>

VersionNext == Parse \/ Compare

SpecVersion == VersionInit /\ [][VersionNext]_vars

PypiNext == PypiInfo /\ UNCHANGED <<vars_version, vars_settings>>

PypiSpecInit == PypiInit /\ VersionIdle /\ SettingsIdle

SpecPypi == PypiSpecInit /\ [][PypiNext]_vars

SettingsSpecInit ==
    /\ SettingsInit
    /\ VersionIdle
    /\ data = Answer("none", "", {})
    /\ include_prereleases = FALSE
    /\ latest = <<>>
    /\ problem = ""
    /\ pypi = "idle"

SpecSettings == SettingsSpecInit /\ [][SettingsNext]_vars

-----------------------------------------------------------------------------
(* Claims about parsing and ordering *)

Tagged(v) == v.prerelease # NoPrerelease

Compared == lt # <<>>

\* the order of the kind strings: "a" < "b" < "c" < "dev"
KindStringRank(kind) ==
    CASE kind = "a" -> 1 [] kind = "b" -> 2 [] kind = "c" -> 3 [] kind = "dev" -> 4

\* C3: of two parsed versions with equal components, the one with a
\* pre-release tag is less than the one without (a < b holds and b < a does
\* not), and two tagged ones are ordered by (kind, number), kind first.
C3_UntaggedIsGreater ==
    (Compared /\ versions[1].components = versions[2].components) =>
        LET a == versions[1]
            b == versions[2]
        IN  /\ (Tagged(a) /\ ~Tagged(b)) => (lt[1] /\ ~lt[2])
            /\ (Tagged(a) /\ Tagged(b)) =>
                  (lt[1] <=>
                     \/ KindStringRank(a.prerelease.kind) < KindStringRank(b.prerelease.kind)
                     \/ /\ a.prerelease.kind = b.prerelease.kind
                        /\ a.prerelease.num < b.prerelease.num)

\* the qualifier a shape carries, "rc" written as "c", and its number
QualifierOf(sh) ==
    IF sh.rel = "dev" THEN [kind |-> "dev", num |-> sh.rel_num]
    ELSE IF sh.pre # "" THEN [kind |-> IF sh.pre = "rc" THEN "c" ELSE sh.pre,
                              num |-> sh.pre_num]
    ELSE NoPrerelease

\* the claimed order of the kinds: dev < a < b < c
ClaimedKindRank(kind) ==
    CASE kind = "dev" -> 0 [] kind = "a" -> 1 [] kind = "b" -> 2 [] kind = "c" -> 3

\* C4: for one release core and one number N, the parsed versions are
\* ordered dev < a < b < c by their pre-release kind, rc counting as c.
C4_DevBelowABelowBBelowC ==
    Compared =>
        LET p == QualifierOf(shapes[1])
            q == QualifierOf(shapes[2])
        IN  (/\ shapes[1].segs = shapes[2].segs
             /\ shapes[1].rel # "post" /\ shapes[2].rel # "post"
             /\ p # NoPrerelease /\ q # NoPrerelease
             /\ p.num = q.num
             /\ ClaimedKindRank(p.kind) < ClaimedKindRank(q.kind))
            => (/\ versions[1].prerelease = p
                /\ versions[2].prerelease = q
                /\ lt[1]
                /\ ~lt[2])

\* the integers of a release core, zero-padded to three, and the post number
ClaimedComponents(sh) ==
    LET n == Len(sh.segs)
    IN  [i \in 1..4 |->
            IF i <= n THEN DigitVal(sh.segs[i])
            ELSE IF i = 4 /\ sh.rel = "post" THEN sh.rel_num
            ELSE 0]

\* C9: a text whose release core has 1, 2 or 3 segments parses to
\* components (major, minor, patch, post-or-0) with the missing segments
\* zero, and a core of more than 3 segments leaves components unset.
C9_OneToThreeSegmentsAccepted ==
    \A i \in DOMAIN versions :
        versions[i].components =
            IF Len(shapes[i].segs) <= 3 THEN ClaimedComponents(shapes[i])
            ELSE NoComponents

-----------------------------------------------------------------------------
(* Claims about the selection of the latest version *)

\* the versions parsed from the anchors of the listing
ListedVersions ==
    {PepVersion(PypiInfo_version_part(l)) : l \in {x \in data.lines : x.href}}

StableListed ==
    {v \in ListedVersions : v.components # NoComponents /\ ~Tagged(v)}

PrereleasesListed ==
    {v \in ListedVersions : v.components # NoComponents /\ Tagged(v)}

\* the stable versions alone when pre-releases were not asked for and there
\* is a stable version, and the stable and the pre-release versions otherwise
Considered ==
    IF ~include_prereleases /\ StableListed # {}
    THEN StableListed
    ELSE StableListed \cup PrereleasesListed

ListingResolved == pypi = "done" /\ data.kind = "html" /\ data.lines # {}

-----------------------------------------------------------------------------
(* The settings store *)

\* the registered documents that define a key, by their place in children
Definers(key) ==
    {i \in DOMAIN children : SettingsFile__get_raw_value(children[i].contents, key) # Null}

Earliest(places) == CHOOSE i \in places : \A j \in places : i <= j

\* what the earliest document defining a key holds for it
EarliestValue(key) ==
    SettingsFile__get_raw_value(children[Earliest(Definers(key))].contents, key)

DefaultsDefine(key) == SettingsFile__get_raw_value(defaults.contents, key) # Null

\* C1: a key that registered documents define has the value of the earliest
\* of them, whatever was registered later; the defaults document gives the
\* value only of a key that no registered document defines, and a key nobody
\* defines has the value of the earliest document defining default.<key>.
C1_EarlierDocumentWins ==
    (call.op = "get_value" /\ call.package_name = "") =>
        /\ Definers(call.key) # {} => result.value = EarliestValue(call.key)
        /\ (Definers(call.key) = {} /\ DefaultsDefine(call.key)) =>
              result.value = SettingsFile__get_raw_value(defaults.contents, call.key)
        /\ (Definers(call.key) = {} /\ ~DefaultsDefine(call.key)
            /\ Definers(<<"default">> \o call.key) # {}) =>
              result.value = EarliestValue(<<"default">> \o call.key)

\* three documents registered by more than one add, two of which define the
\* key asked for with different values, the later of them registered last
C1_Witness ==
    /\ call.op = "get_value"
    /\ call.package_name = ""
    /\ Len(children) = 3
    /\ \E i, j \in Definers(call.key) :
          /\ i < j
          /\ SettingsFile__get_raw_value(children[i].contents, call.key)
                # SettingsFile__get_raw_value(children[j].contents, call.key)
          /\ result.value = SettingsFile__get_raw_value(children[i].contents, call.key)
    /\ Definers(<<"default", "channel">>) # {}

\* how many registered documents have a path
Registered(path) == Cardinality({i \in DOMAIN children : children[i].path = path})

\* C2: after add(paths) every path of the list, and every path in the include
\* list of a document this add registered, is in children exactly once.
C2_EveryPathRegistered ==
    call.op = "add" =>
        /\ \A i \in DOMAIN call.list : Registered(ResolvedPath(call.list[i][1][1])) = 1
        /\ \A j \in (Len(call.before) + 1)..Len(children) :
              \A i \in DOMAIN Include(children[j]) :
                  Registered(ResolvedPath(Include(children[j])[i][1][1])) = 1

\* C5: no entry of a bundle list of a loaded document starts with "bundle:".
C5_NoBundleMarkerLeft ==
    \A j \in DOMAIN children :
        Get(children[j].contents, "bundle").t = "dict" =>
            \A name \in DOMAIN Get(children[j].contents, "bundle").v :
                \A i \in DOMAIN Get(children[j].contents, "bundle").v[name].v :
                    ~IsBundleName(Get(children[j].contents, "bundle").v[name].v[i])

\* what a document answers for the channel of a package, as the names it may
\* give: its select.<package>.channel when it has one, else the channels of
\* its channels mapping that hold the package
Selection(doc, package_name) ==
    SettingsFile__get_raw_value(doc.contents, <<"select", package_name, "channel">>)

Holding(doc, package_name) ==
    IF Get(doc.contents, "channels").t = "dict"
    THEN {S(name) : name \in ChannelsHolding(Get(doc.contents, "channels"), package_name)}
    ELSE {}

DocumentChannels(doc, package_name) ==
    IF Truthy(Selection(doc, package_name))
    THEN {Selection(doc, package_name)}
    ELSE Holding(doc, package_name)

Answering(package_name) ==
    {i \in DOMAIN children : DocumentChannels(children[i], package_name) # {}}

\* default.channel: the earliest document defining it, else the built-in one
DefaultChannel ==
    IF Definers(<<"default", "channel">>) # {}
    THEN EarliestValue(<<"default", "channel">>)
    ELSE S("latest")

\* the channel names the store may resolve for a package
ChannelNames(package_name) ==
    IF Answering(package_name) # {}
    THEN DocumentChannels(children[Earliest(Answering(package_name))], package_name)
    ELSE {DefaultChannel}

\* the version pinned for a package in a channel, unset when there is none
Pinned(channel, package_name) ==
    IF Definers(<<"channels", channel.v[1][1], package_name>>) # {}
    THEN EarliestValue(<<"channels", channel.v[1][1], package_name>>)
    ELSE Null

\* C7: version(package) returns a Definition, tagged with the channel
\* resolved for the package and holding the version pinned for the package in
\* that channel, unset when there is none; it never raises.
C7_VersionTaggedWithChannel ==
    call.op = "version" =>
        /\ result.kind = "Definition"
        /\ result.channel \in ChannelNames(call.package_name)
        /\ result.value = Pinned(result.channel, call.package_name)

\* C8: package_channel(package) gives the answer of the first registered
\* document that has one, and the default.channel definition when none has.
C8_FirstAnsweringDocument ==
    call.op = "package_channel" =>
        /\ result.kind \in {"Definition", "value"}
        /\ result.value \in ChannelNames(call.package_name)
        /\ Answering(call.package_name) = {} => result.kind = "Definition"

\* two documents answer with different channels, the first registered
\* document answers nothing, and the earlier answer is the one given
C8_Witness ==
    /\ call.op = "package_channel"
    /\ 1 \notin Answering(call.package_name)
    /\ \E i, j \in Answering(call.package_name) :
          /\ i < j
          /\ DocumentChannels(children[i], call.package_name)
                \cap DocumentChannels(children[j], call.package_name) = {}
          /\ result.value \in DocumentChannels(children[i], call.package_name)

\* the packages the merged configuration registers under the bundle of a name
MergedBundle(name) ==
    IF Definers(BundleKey(name)) # {} THEN EarliestValue(BundleKey(name)).v ELSE <<>>

\* what stands in the result for a name
Standing(name) ==
    IF IsBundleName(name) /\ MergedBundle(name) # <<>> THEN MergedBundle(name) ELSE <<name>>

RECURSIVE AllStanding(_)
AllStanding(names) ==
    IF names = <<>> THEN <<>> ELSE Standing(Head(names)) \o AllStanding(Tail(names))

Probed(key, package_name) ==
    {i \in DOMAIN children :
        SettingsFile_get_value(children[i].contents, key, package_name) # Null}

\* the Definition the earliest registered document answering a key gives
EarliestProbed(key, package_name) ==
    Definition(SettingsFile_get_value(children[Earliest(Probed(key, package_name))].contents,
                                      key, package_name),
               children[Earliest(Probed(key, package_name))].path)

\* whether the defaults document answers a key, and the Definition it gives
DefaultsAnswer(key, package_name) ==
    SettingsFile_get_value(defaults.contents, key, package_name) # Null

FromDefaults(key, package_name) ==
    Definition(SettingsFile_get_value(defaults.contents, key, package_name), "defaults")

-----------------------------------------------------------------------------
(* Outcomes of an index resolution *)

\* C12: a resolution that completed has either latest set and no problem, or
\* latest unset and a problem, for JSON answers as for legacy listings.
C12_LatestOrProblem ==
    pypi = "done" => (latest = <<>> <=> problem # "")

-----------------------------------------------------------------------------
(* Registration over include graphs *)

\* the canonical paths a registered document includes
Included(doc) == {ResolvedPath(Include(doc)[i][1][1]) : i \in DOMAIN Include(doc)}

\* C13: whatever the files include, every add returns, and the documents
\* created are one per canonical path: no two documents have the same path,
\* every document's path is remembered in paths, and there are no more
\* documents than settings files.
C13_OneDocumentPerPath ==
    /\ \A i, j \in DOMAIN children : children[i].path = children[j].path => i = j
    /\ paths = {children[i].path : i \in DOMAIN children}
    /\ paths \subseteq Paths
    /\ Len(children) <= Cardinality(Paths)

\* an add has returned with every file registered, one of which includes
\* itself and two of which include each other
C13_Witness ==
    /\ call.op = "add"
    /\ Len(children) = Cardinality(Paths)
    /\ \E i \in DOMAIN children : children[i].path \in Included(children[i])
    /\ \E i, j \in DOMAIN children :
          /\ i # j
          /\ children[j].path \in Included(children[i])
          /\ children[i].path \in Included(children[j])

-----------------------------------------------------------------------------
(* Selection as a function of the listing *)

\* C14: the latest selected from a legacy listing is decided by its candidates
\* and the pre-release flag alone: whatever order the set of releases is
\* iterated in, the same text is selected.
C14_SelectionIsDeterministic ==
    (ListingResolved /\ latest # <<>>) =>
        \A order \in Iterations(Releases(Candidates(data.lines), include_prereleases)) :
            Sorted(order)[Len(order)].text = latest

====
